---- MODULE Spec2Model ----
(***************************************************************************)
(* Model of ibm_combine_proj_update.py: the fetch-and-merge pipeline       *)
(* (batch loop, process_batch with its ThreadPoolExecutor, flush to the    *)
(* intermediate CSV, consolidation) and the two record selectors           *)
(* get_most_recent_projection / extract_most_recent_models.                *)
(*                                                                         *)
(* Time is counted in ticks; DayLen ticks make one day, so that            *)
(* timedelta.days (a floor division) is visible.  A JSON value that is     *)
(* missing or null is the Python None; the values of the feeds are kept    *)
(* as strings so that None, numbers and non-numeric text can be compared.  *)
(***************************************************************************)
EXTENDS Integers, Sequences, FiniteSets, TLC

VARIABLES
    players_df,          \* the roster: a sequence of Player IDs, row k is players_df[k]
    batch_size,          \* line 169 (scaled down from 100)
    i,                   \* the batch loop's offset (line 170)
    pc,                  \* position of the main thread in the script
    futures,             \* process_batch's futures, in submission order
    player_projections,  \* the accumulator dict, a function on its keys
    intermediate_file,   \* the scratch CSV: [exists, lines]
    final_df,            \* the consolidated frame (lines 191-197)
    output_file,         \* TRUE once to_excel has written the final artifact
    now,                 \* the last value datetime.now() returned
    sel                  \* a selector call under test: its inputs and its result

vars == <<players_df, batch_size, i, pc, futures, player_projections,
          intermediate_file, final_df, output_file, now, sel>>

pipeVars == <<players_df, batch_size, i, pc, futures, player_projections,
              intermediate_file, final_df, output_file>>

----------------------------------------------------------------------------
(* Bounds of the model *)

MaxRoster == 4      \* longest roster
MaxNow == 9         \* the clock stops here
MaxLen == 3         \* longest record list handed to a selector under test

(* Program constants *)

max_workers == 5                  \* ThreadPoolExecutor(max_workers=5)
ProjectionMaxAge == 3             \* get_most_recent_projection(..., max_age_days=3)
ModelsMaxAge == 1                 \* extract_most_recent_models(..., max_age_days=1)
ProcessBatchMaxAge == 3           \* process_batch(..., max_age_days=3)
StatusOK == 200                   \* response.status_code == 200

(* Scale of the clock *)

DayLen == 2         \* ticks per day
Now0 == 8           \* the clock at the start of a run

None == "None"
NaN == "NaN"

----------------------------------------------------------------------------
(* Timestamps.  An EXECUTION_TIMESTAMP is a string; what matters of it is  *)
(* whether it is there, which of the two formats it is written in, and the *)
(* instant it denotes.                                                     *)

NoTimestamp == [fmt |-> "none", t |-> 0]        \* key missing, null or ""
BadTimestamp == [fmt |-> "bad", t |-> 0]        \* text neither format parses
Usec(t) == [fmt |-> "usec", t |-> t]            \* "%Y-%m-%d %H:%M:%S.%f"
Sec(t) == [fmt |-> "sec", t |-> t]              \* "%Y-%m-%d %H:%M:%S"

(* datetime.strptime with the first format, then the second: <<t>> when    *)
(* one of them parses, <<>> when both raise ValueError.                    *)
strptime(timestamp_str, format) ==
    IF timestamp_str.fmt = format THEN <<timestamp_str.t>> ELSE <<>>

ParseTimestamp(timestamp_str) ==
    IF strptime(timestamp_str, "usec") # <<>>
    THEN strptime(timestamp_str, "usec")
    ELSE strptime(timestamp_str, "sec")

(* (now - timestamp).days: timedelta.days is the floor of the difference   *)
(* in days, negative for a timestamp in the future.                        *)
days(delta) == delta \div DayLen

(* A window one day too wide. *)
TooOldOffByOne(n, timestamp, max_age_days) ==
    days(n - timestamp) > max_age_days + 1

TooOld(n, timestamp, max_age_days) == days(n - timestamp) > max_age_days

----------------------------------------------------------------------------
(* Feed records.  record.get(key, None) is None for a missing key and for  *)
(* a JSON null alike, so a missing field is a field holding None.          *)

ProjectionRecord(ts, score, low, high) ==
    [EXECUTION_TIMESTAMP |-> ts, SCORE_PROJECTION |-> score,
     LOW_SCORE |-> low, HIGH_SCORE |-> high]

ModelRecord(ts, model_type, result) ==
    [EXECUTION_TIMESTAMP |-> ts, MODEL_TYPE |-> model_type,
     NORMALIZED_RESULT |-> result]

(* A record is looked at further only if its timestamp is there, parses    *)
(* and is not older than max_age_days (lines 46-61 and 88-103).            *)
Qualifies(record, n, max_age_days) ==
    /\ record.EXECUTION_TIMESTAMP.fmt # "none"
    /\ ParseTimestamp(record.EXECUTION_TIMESTAMP) # <<>>
    /\ ~TooOld(n, ParseTimestamp(record.EXECUTION_TIMESTAMP)[1], max_age_days)

(* The comparison turned around: the oldest record wins. *)
NewerReversed(timestamp, most_recent_timestamp) ==
    timestamp < most_recent_timestamp

(* The comparison that lets a record replace the most recent one so far    *)
(* (lines 63, 106, 112).                                                   *)
Newer(timestamp, most_recent_timestamp) == timestamp > most_recent_timestamp

(* The loop of get_most_recent_projection (lines 45-65).  st holds the     *)
(* two loop variables: most_recent_timestamp and most_recent_projection,   *)
(* each <<>> for None and <<x>> otherwise.                                 *)
RECURSIVE ProjectionLoop(_, _, _, _, _)
ProjectionLoop(json_data, k, n, max_age_days, st) ==
    IF k > Len(json_data) THEN st
    ELSE LET projection == json_data[k]
             timestamp == ParseTimestamp(projection.EXECUTION_TIMESTAMP)[1]
         IN  IF ~Qualifies(projection, n, max_age_days)
             THEN ProjectionLoop(json_data, k + 1, n, max_age_days, st)
             ELSE IF st.most_recent_timestamp = <<>>
                     \/ Newer(timestamp, st.most_recent_timestamp[1])
                  THEN ProjectionLoop(json_data, k + 1, n, max_age_days,
                           [most_recent_timestamp |-> <<timestamp>>,
                            most_recent_projection |-> <<projection>>])
                  ELSE ProjectionLoop(json_data, k + 1, n, max_age_days, st)

(* get_most_recent_projection (lines 37-73).  json is [none, data]: none   *)
(* for json_data = None.  The result is <<score, low, high>>.              *)
get_most_recent_projection(json, n, max_age_days) ==
    IF json.none \/ json.data = <<>> THEN <<None, None, None>>
    ELSE LET st == ProjectionLoop(json.data, 1, n, max_age_days,
                       [most_recent_timestamp |-> <<>>,
                        most_recent_projection |-> <<>>])
         IN  IF st.most_recent_projection # <<>>
             THEN <<st.most_recent_projection[1].SCORE_PROJECTION,
                    st.most_recent_projection[1].LOW_SCORE,
                    st.most_recent_projection[1].HIGH_SCORE>>
             ELSE <<None, None, None>>

(* One most recent timestamp shared by the two model types. *)
BustIsNewerOverall(timestamp, st) ==
    /\ \/ st.most_recent_bust_timestamp = <<>>
       \/ Newer(timestamp, st.most_recent_bust_timestamp[1])
    /\ \/ st.most_recent_breakout_timestamp = <<>>
       \/ Newer(timestamp, st.most_recent_breakout_timestamp[1])

(* The tests of lines 106 and 112: each model type is compared with its   *)
(* own most recent timestamp (<<>> for None).                              *)
BustIsNewer(timestamp, st) ==
    \/ st.most_recent_bust_timestamp = <<>>
    \/ Newer(timestamp, st.most_recent_bust_timestamp[1])

BreakoutIsNewer(timestamp, st) ==
    \/ st.most_recent_breakout_timestamp = <<>>
    \/ Newer(timestamp, st.most_recent_breakout_timestamp[1])

(* The loop of extract_most_recent_models (lines 86-115): one pass over    *)
(* the records, with the four loop variables in st.                        *)
RECURSIVE ModelLoop(_, _, _, _, _)
ModelLoop(json_data, k, n, max_age_days, st) ==
    IF k > Len(json_data) THEN st
    ELSE LET model == json_data[k]
             timestamp == ParseTimestamp(model.EXECUTION_TIMESTAMP)[1]
         IN  IF ~Qualifies(model, n, max_age_days)
             THEN ModelLoop(json_data, k + 1, n, max_age_days, st)
             ELSE IF model.MODEL_TYPE = "bust_classifier"
             THEN IF BustIsNewer(timestamp, st)
                  THEN ModelLoop(json_data, k + 1, n, max_age_days,
                           [st EXCEPT !.most_recent_bust_model = model.NORMALIZED_RESULT,
                                      !.most_recent_bust_timestamp = <<timestamp>>])
                  ELSE ModelLoop(json_data, k + 1, n, max_age_days, st)
             ELSE IF model.MODEL_TYPE = "breakout_classifier"
             THEN IF BreakoutIsNewer(timestamp, st)
                  THEN ModelLoop(json_data, k + 1, n, max_age_days,
                           [st EXCEPT !.most_recent_breakout_model = model.NORMALIZED_RESULT,
                                      !.most_recent_breakout_timestamp = <<timestamp>>])
                  ELSE ModelLoop(json_data, k + 1, n, max_age_days, st)
             ELSE ModelLoop(json_data, k + 1, n, max_age_days, st)

(* extract_most_recent_models (lines 76-117): <<bust, breakout>>.          *)
extract_most_recent_models(json, n, max_age_days) ==
    IF json.none \/ json.data = <<>> THEN <<None, None>>
    ELSE LET st == ModelLoop(json.data, 1, n, max_age_days,
                       [most_recent_bust_model |-> None,
                        most_recent_breakout_model |-> None,
                        most_recent_bust_timestamp |-> <<>>,
                        most_recent_breakout_timestamp |-> <<>>])
         IN  <<st.most_recent_bust_model, st.most_recent_breakout_model>>

----------------------------------------------------------------------------
(* The remote feeds.  A fetch ends in an exception of requests.get, in a   *)
(* status other than 200, or in status 200 with a JSON array.              *)

EntityA == 1     \* fresh data in both feeds
EntityB == 2     \* both feeds answer with an empty array
EntityC == 3     \* a projection about to expire, an aged classifier record

FreshProjection == ProjectionRecord(Usec(Now0), "12.5", None, None)
OldProjection == ProjectionRecord(Sec(Now0 - 4 * DayLen + 1), "10", "20", "abc")
FreshBust == ModelRecord(Usec(Now0), "bust_classifier", "0.3")
AgedBreakout == ModelRecord(Sec(Now0 - 2 * DayLen), "breakout_classifier", "0.7")

(* The JSON array the remote service holds for a player and a feed. *)
Feed(player_id, projection_type) ==
    IF player_id = EntityA
    THEN IF projection_type = "score" THEN <<FreshProjection>> ELSE <<FreshBust>>
    ELSE IF player_id = EntityC
    THEN IF projection_type = "score" THEN <<OldProjection>> ELSE <<AgedBreakout>>
    ELSE <<>>

Responses(player_id, projection_type) ==
    {[exception |-> TRUE, status_code |-> 0, body |-> <<>>],
     [exception |-> FALSE, status_code |-> 404, body |-> <<>>],
     [exception |-> FALSE, status_code |-> StatusOK,
      body |-> Feed(player_id, projection_type)]}

NoneJson == [none |-> TRUE, data |-> <<>>]

(* fetch_projections (lines 19-34): the json_data it returns.              *)
fetch_projections(response) ==
    IF response.exception THEN NoneJson
    ELSE IF response.status_code = StatusOK
         THEN [none |-> FALSE, data |-> response.body]
         ELSE NoneJson

----------------------------------------------------------------------------
(* The roster.  Row k of players_df has Player ID players_df[k]; its Name, *)
(* Position and NFL Team are whatever the sheet holds for row k, which the *)
(* model writes as k: two rows never share them by accident.               *)

Row(df, k) == [Name |-> k, PlayerID |-> df[k], Position |-> k, NFLTeam |-> k]

(* Rosters up to a renaming of the ids (an id is only ever compared for    *)
(* equality): the first row has id 1 and a row's id is at most one more    *)
(* than the largest id before it.                                          *)
IsRoster(df) ==
    \A k \in 1..Len(df) :
        \A m \in 1..(df[k] - 1) : \E j \in 1..(k - 1) : df[j] = m

Rosters ==
    UNION {{df \in [1..n -> 1..n] : IsRoster(df)} : n \in 0..MaxRoster}

(* A slice that stops one row early. *)
BatchRowsShort(df, offset, size) ==
    {k \in 1..Len(df) : offset < k /\ k < offset + size}

(* players_df.iloc[i:i+batch_size]: the row numbers of the batch at offset *)
(* i (0-based), in roster order.                                           *)
BatchRows(df, offset, size) ==
    {k \in 1..Len(df) : offset < k /\ k <= offset + size}

----------------------------------------------------------------------------
(* The accumulator player_projections: a dict from Player ID to the        *)
(* player's entry, here a function on its keys.                            *)

EmptyDict == [k \in {} |-> 0]

Keys(projections) == DOMAIN projections

(* lines 135-145 *)
NewEntry(player_id, row) ==
    [Name |-> row.Name, PlayerID |-> player_id, Position |-> row.Position,
     NFLTeam |-> row.NFLTeam, ScoreProjection |-> None, LowScore |-> None,
     HighScore |-> None, Bust |-> None, Breakout |-> None]

(* lines 134-145: create the entry on first touch *)
Touch(projections, player_id, row) ==
    IF player_id \in Keys(projections) THEN projections
    ELSE [k \in Keys(projections) \cup {player_id} |->
             IF k = player_id THEN NewEntry(player_id, row) ELSE projections[k]]

(* The max_age_days process_batch hands to a selector (lines 148, 154):    *)
(* its own parameter, whatever the projection_type.                        *)
SelectorMaxAge(projection_type, max_age_days) == max_age_days

(* The entry written anew with the fields of one feed only. *)
UpdateOverwrite(entry, projection_type, json, n, max_age_days) ==
    IF projection_type = "score"
    THEN LET r == get_most_recent_projection(json, n, max_age_days)
         IN  [entry EXCEPT !.ScoreProjection = r[1], !.LowScore = r[2],
                           !.HighScore = r[3], !.Bust = None,
                           !.Breakout = None]
    ELSE LET r == extract_most_recent_models(json, n, max_age_days)
         IN  [entry EXCEPT !.Bust = r[1], !.Breakout = r[2],
                           !.ScoreProjection = None, !.LowScore = None,
                           !.HighScore = None]

(* lines 147-156: the fields one completed future writes *)
Update(entry, projection_type, json, n, max_age_days) ==
    IF projection_type = "score"
    THEN LET r == get_most_recent_projection(json, n,
                      SelectorMaxAge(projection_type, max_age_days))
         IN  [entry EXCEPT !.ScoreProjection = r[1], !.LowScore = r[2],
                           !.HighScore = r[3]]
    ELSE LET r == extract_most_recent_models(json, n,
                      SelectorMaxAge(projection_type, max_age_days))
         IN  [entry EXCEPT !.Bust = r[1], !.Breakout = r[2]]

(* A failed fetch that is dropped before the entry is made. *)
ApplyResultSkipFailed(projections, f, n, max_age_days) ==
    IF f.result.none THEN projections
    ELSE LET touched == Touch(projections, f.player_id, f.row)
         IN  [touched EXCEPT ![f.player_id] =
                 Update(touched[f.player_id], f.projection_type, f.result,
                        n, max_age_days)]

(* The body of the as_completed loop for one future (lines 129-156).       *)
ApplyResult(projections, f, n, max_age_days) ==
    LET touched == Touch(projections, f.player_id, f.row)
    IN  [touched EXCEPT ![f.player_id] =
            Update(touched[f.player_id], f.projection_type, f.result,
                   n, max_age_days)]

----------------------------------------------------------------------------
(* The intermediate CSV file and the consolidation.                        *)

HeaderLine == [kind |-> "header"]

(* to_csv of one row: None is written as the empty cell. *)
CsvCell(v) == IF v = None THEN "" ELSE v

CsvLine(entry) ==
    [kind |-> "row", Name |-> entry.Name, PlayerID |-> entry.PlayerID,
     Position |-> entry.Position, NFLTeam |-> entry.NFLTeam,
     ScoreProjection |-> CsvCell(entry.ScoreProjection),
     LowScore |-> CsvCell(entry.LowScore),
     HighScore |-> CsvCell(entry.HighScore),
     Bust |-> CsvCell(entry.Bust), Breakout |-> CsvCell(entry.Breakout)]

(* The rows of DataFrame.from_dict(player_projections, orient='index'),    *)
(* one per key; they are listed by ascending Player ID.                    *)
RECURSIVE CsvLines(_)
CsvLines(projections) ==
    IF Keys(projections) = {} THEN <<>>
    ELSE LET first == CHOOSE k \in Keys(projections) :
                          \A j \in Keys(projections) : k <= j
         IN  <<CsvLine(projections[first])>>
             \o CsvLines([k \in Keys(projections) \ {first} |-> projections[k]])

(* The file written anew by each flush (mode='w'). *)
to_csvOverwrite(file, projections) ==
    [exists |-> TRUE, lines |-> <<HeaderLine>> \o CsvLines(projections)]

(* A header line in front of every block of rows. *)
to_csvAlwaysHeader(file, projections) ==
    [exists |-> TRUE,
     lines |-> file.lines \o <<HeaderLine>> \o CsvLines(projections)]

(* DataFrame.from_dict(...).to_csv(intermediate_file, mode='a',            *)
(* header=not os.path.exists(intermediate_file)) (lines 176-179, 185-188). *)
to_csv(file, projections) ==
    [exists |-> TRUE,
     lines |-> file.lines
               \o (IF file.exists THEN <<>> ELSE <<HeaderLine>>)
               \o CsvLines(projections)]

(* A flush whenever anything has been accumulated. *)
FlushDueNonEmpty(projections, size) == Cardinality(Keys(projections)) > 0

(* The flush condition of line 175. *)
FlushDue(projections, size) == Cardinality(Keys(projections)) >= size

(* pd.read_csv of one cell: the empty cell is NaN. *)
ReadCell(c) == IF c = "" THEN NaN ELSE c

NumericText == {"12.5", "0.3", "0.7", "10", "20"}

(* pd.to_numeric(..., errors='coerce') (line 197) *)
to_numeric(v) == IF v \in NumericText THEN v ELSE NaN

(* A line of column names read as data: text in every column; the text     *)
(* 'Player ID' is written 0, which is no id of a roster.                   *)
HeaderAsData ==
    [Name |-> 0, PlayerID |-> 0, Position |-> 0, NFLTeam |-> 0,
     ScoreProjection |-> NaN, LowScore |-> NaN, HighScore |-> NaN,
     Bust |-> NaN, Breakout |-> NaN]

ReadLine(line) ==
    IF line.kind = "header" THEN HeaderAsData
    ELSE [Name |-> line.Name, PlayerID |-> line.PlayerID,
          Position |-> line.Position, NFLTeam |-> line.NFLTeam,
          ScoreProjection |-> to_numeric(ReadCell(line.ScoreProjection)),
          LowScore |-> to_numeric(ReadCell(line.LowScore)),
          HighScore |-> to_numeric(ReadCell(line.HighScore)),
          Bust |-> to_numeric(ReadCell(line.Bust)),
          Breakout |-> to_numeric(ReadCell(line.Breakout))]

RECURSIVE ReadLines(_)
ReadLines(lines) ==
    IF lines = <<>> THEN <<>>
    ELSE <<ReadLine(Head(lines))>> \o ReadLines(Tail(lines))

(* pd.read_csv + to_numeric (lines 191-197): the first line of the file is *)
(* the header, every other line a row.                                     *)
read_csv(file) == ReadLines(Tail(file.lines))

----------------------------------------------------------------------------
(* The pipeline.                                                           *)

NoFile == [exists |-> FALSE, lines |-> <<>>]
NoSel == [call |-> "none"]

Running == {k \in 1..Len(futures) : futures[k].state = "RUNNING"}
Pending == {k \in 1..Len(futures) : futures[k].state = "PENDING"}
Settled == {k \in 1..Len(futures) : futures[k].state = "FINISHED"}
Applied == {k \in 1..Len(futures) : futures[k].applied}

(* The futures process_batch submits for the batch at offset i (lines      *)
(* 123-126): for each row its 'score' future, then its 'classifiers' one.  *)
Submitted(df, offset, size) ==
    LET rows == BatchRows(df, offset, size)
    IN  [k \in 1..(2 * Cardinality(rows)) |->
            LET r == offset + ((k + 1) \div 2)
            IN  [player_id |-> df[r],
                 projection_type |-> IF k % 2 = 1 THEN "score" ELSE "classifiers",
                 row |-> Row(df, r),
                 state |-> "PENDING", result |-> NoneJson,
                 applied |-> FALSE]]

InitRun(df, size) ==
    /\ players_df = df
    /\ batch_size = size
    /\ i = 0
    /\ pc = "loop"
    /\ futures = <<>>
    /\ player_projections = EmptyDict
    /\ intermediate_file = NoFile
    /\ final_df = <<>>
    /\ output_file = FALSE
    /\ now = Now0
    /\ sel = NoSel

(* 2 * batch_size futures are more than the pool's threads from this      *)
(* batch_size on.                                                          *)
SaturatingBatch == max_workers \div 2 + 1

(* Runs whose batches fit the pool: every roster, every smaller batch_size *)
Init ==
    \E df \in Rosters, size \in 1..(SaturatingBatch - 1) : InitRun(df, size)

(* Runs of one batch that can fill the pool: the rosters of at most        *)
(* SaturatingBatch rows, with that batch_size.                             *)
InitPool ==
    \E df \in Rosters :
        Len(df) <= SaturatingBatch /\ InitRun(df, SaturatingBatch)

(* Lines 170-126: the loop takes the next batch and process_batch submits  *)
(* its futures.                                                            *)
SubmitBatch ==
    /\ pc = "loop"
    /\ i < Len(players_df)
    /\ futures' = Submitted(players_df, i, batch_size)
    /\ pc' = "batch"
    /\ UNCHANGED <<players_df, batch_size, i, player_projections,
                   intermediate_file, final_df, output_file, now, sel>>

(* A pool without a limit on its threads. *)
WorkerFreeUnbounded == TRUE

(* A worker thread of the pool takes the oldest queued work item; the pool *)
(* has at most max_workers threads (line 121).                             *)
WorkerFree == Cardinality(Running) < max_workers

StartFetch(k) ==
    /\ pc = "batch"
    /\ k \in Pending
    /\ \A j \in Pending : k <= j
    /\ WorkerFree
    /\ futures' = [futures EXCEPT ![k].state = "RUNNING"]
    /\ UNCHANGED <<players_df, batch_size, i, pc, player_projections,
                   intermediate_file, final_df, output_file, now, sel>>

(* A worker that merges its result into player_projections itself. *)
FinishFetchAndApply(k) ==
    /\ pc = "batch"
    /\ k \in Running
    /\ \E response \in Responses(futures[k].player_id,
                                  futures[k].projection_type) :
          /\ futures' = [futures EXCEPT ![k].state = "FINISHED",
                                        ![k].result = fetch_projections(response)]
          /\ player_projections' =
                ApplyResult(player_projections, futures'[k], now,
                            ProcessBatchMaxAge)
    /\ UNCHANGED <<players_df, batch_size, i, pc,
                   intermediate_file, final_df, output_file, now, sel>>

(* fetch_projections returns in its worker (lines 26-34). *)
FinishFetch(k) ==
    /\ pc = "batch"
    /\ k \in Running
    /\ \E response \in Responses(futures[k].player_id,
                                  futures[k].projection_type) :
          futures' = [futures EXCEPT ![k].state = "FINISHED",
                                     ![k].result = fetch_projections(response)]
    /\ UNCHANGED <<players_df, batch_size, i, pc, player_projections,
                   intermediate_file, final_df, output_file, now, sel>>

(* One turn of the as_completed loop in the main thread (lines 128-159):   *)
(* a finished future not handled yet is handled; the selector reads the    *)
(* clock.                                                                  *)
ApplyFuture(k) ==
    /\ pc = "batch"
    /\ k \in Settled \ Applied
    /\ \E n \in now..MaxNow :
          /\ now' = n
          /\ player_projections' =
                ApplyResult(player_projections, futures[k], n, ProcessBatchMaxAge)
          /\ futures' = [futures EXCEPT ![k].applied = TRUE]
    /\ UNCHANGED <<players_df, batch_size, i, pc, intermediate_file,
                   final_df, output_file, sel>>

(* as_completed is exhausted and the executor is shut down: process_batch  *)
(* returns (lines 121, 128).                                               *)
BatchDone == Applied = 1..Len(futures)

ReturnBatch ==
    /\ pc = "batch"
    /\ BatchDone
    /\ futures' = <<>>
    /\ pc' = "flush"
    /\ UNCHANGED <<players_df, batch_size, i, player_projections,
                   intermediate_file, final_df, output_file, now, sel>>

(* Lines 175-181, then the loop's next offset. *)
Flush ==
    /\ pc = "flush"
    /\ IF FlushDue(player_projections, batch_size)
       THEN /\ intermediate_file' = to_csv(intermediate_file, player_projections)
            /\ player_projections' = EmptyDict
       ELSE UNCHANGED <<intermediate_file, player_projections>>
    /\ i' = i + batch_size
    /\ pc' = "loop"
    /\ UNCHANGED <<players_df, batch_size, futures, final_df, output_file,
                   now, sel>>

(* Lines 184-188: the loop is over, what is left is saved. *)
Drain ==
    /\ pc = "loop"
    /\ i >= Len(players_df)
    /\ IF Keys(player_projections) # {}
       THEN intermediate_file' = to_csv(intermediate_file, player_projections)
       ELSE UNCHANGED intermediate_file
    /\ pc' = "read"
    /\ UNCHANGED <<players_df, batch_size, i, futures, player_projections,
                   final_df, output_file, now, sel>>

(* The intermediate file removed as soon as it has been read. *)
ConsolidateAndDelete ==
    /\ pc = "read"
    /\ IF intermediate_file.exists
       THEN /\ final_df' = read_csv(intermediate_file)
            /\ intermediate_file' = NoFile
            /\ pc' = "write"
       ELSE /\ pc' = "crashed"
            /\ UNCHANGED <<final_df, intermediate_file>>
    /\ UNCHANGED <<players_df, batch_size, i, futures, player_projections,
                   output_file, now, sel>>

(* Lines 191-197: pd.read_csv raises FileNotFoundError without the file   *)
(* and the script ends there.                                              *)
Consolidate ==
    /\ pc = "read"
    /\ IF intermediate_file.exists
       THEN /\ final_df' = read_csv(intermediate_file)
            /\ pc' = "write"
       ELSE /\ pc' = "crashed"
            /\ UNCHANGED final_df
    /\ UNCHANGED <<players_df, batch_size, i, futures, player_projections,
                   intermediate_file, output_file, now, sel>>

(* Line 201: to_excel writes the artifact, or raises and the script ends   *)
(* there.                                                                  *)
WriteOutput ==
    /\ pc = "write"
    /\ \E ok \in BOOLEAN :
          IF ok THEN output_file' = TRUE /\ pc' = "cleanup"
          ELSE output_file' = FALSE /\ pc' = "writer_failed"
    /\ UNCHANGED <<players_df, batch_size, i, futures, player_projections,
                   intermediate_file, final_df, now, sel>>

(* Lines 204-206 *)
Cleanup ==
    /\ pc = "cleanup"
    /\ intermediate_file' = NoFile
    /\ pc' = "done"
    /\ UNCHANGED <<players_df, batch_size, i, futures, player_projections,
                   final_df, output_file, now, sel>>

Next ==
    \/ SubmitBatch
    \/ \E k \in 1..Len(futures) : StartFetch(k)
    \/ \E k \in 1..Len(futures) : FinishFetch(k)
    \/ \E k \in 1..Len(futures) : ApplyFuture(k)
    \/ ReturnBatch
    \/ Flush
    \/ Drain
    \/ Consolidate
    \/ WriteOutput
    \/ Cleanup

Spec == Init /\ [][Next]_vars

SpecPool == InitPool /\ [][Next]_vars

----------------------------------------------------------------------------
(* The selectors on their own: a call of get_most_recent_projection or of  *)
(* extract_most_recent_models on any record list of at most MaxLen         *)
(* records, with any max_age_days, at any reading of the clock.            *)

MaxAges == 0..ProjectionMaxAge

RECURSIVE Lists(_, _)
Lists(S, n) ==
    IF n = 0 THEN {<<>>}
    ELSE Lists(S, n - 1) \cup
         {Append(l, x) : l \in {m \in Lists(S, n - 1) : Len(m) = n - 1}, x \in S}

(* Timestamps that are skipped, and timestamps 3, 1 and 0 days old at      *)
(* Now0 (the last one still ahead of the clock then), in either format.    *)
ProjectionTimestamps ==
    {NoTimestamp, BadTimestamp, Sec(Now0 - 4 * DayLen + 1),
     Usec(Now0 - DayLen - 1), Sec(Now0 + 1)}

ProjectionValues ==
    {<<"10", "5", "15">>, <<"20", None, "25">>, <<None, "7", None>>}

ProjectionRecords ==
    {ProjectionRecord(ts, v[1], v[2], v[3]) :
        ts \in ProjectionTimestamps, v \in ProjectionValues}

BustRecords ==
    {ModelRecord(Sec(Now0 - 2 * DayLen), "bust_classifier", "0.3"),
     ModelRecord(Usec(Now0), "bust_classifier", "0.7"),
     ModelRecord(BadTimestamp, "bust_classifier", "0.9")}

BreakoutRecords ==
    {ModelRecord(Sec(Now0 - DayLen - 1), "breakout_classifier", "0.3"),
     ModelRecord(Usec(Now0 + 1), "breakout_classifier", "0.7"),
     ModelRecord(Usec(Now0), "breakout_classifier", None)}

OtherRecords == {ModelRecord(Usec(Now0 + 1), "", "0.9")}

ModelRecords == BustRecords \cup BreakoutRecords \cup OtherRecords

ModelMaxAges == {ModelsMaxAge, ProcessBatchMaxAge}

InitIdle ==
    /\ players_df = <<>>
    /\ batch_size = 1
    /\ i = 0
    /\ pc = "select"
    /\ futures = <<>>
    /\ player_projections = EmptyDict
    /\ intermediate_file = NoFile
    /\ final_df = <<>>
    /\ output_file = FALSE
    /\ now = Now0

InitProjection ==
    /\ InitIdle
    /\ \E data \in Lists(ProjectionRecords, MaxLen), none \in BOOLEAN,
          m \in MaxAges :
          /\ none => data = <<>>
          /\ sel = [call |-> "none", json |-> [none |-> none, data |-> data],
                    max_age_days |-> m, result |-> <<>>]

(* A call of get_most_recent_projection; datetime.now() is read (line 43). *)
CallProjection ==
    /\ pc = "select"
    /\ sel.call = "none"
    /\ \E n \in now..MaxNow :
          /\ now' = n
          /\ sel' = [sel EXCEPT
                       !.call = "get_most_recent_projection",
                       !.result = get_most_recent_projection(sel.json, n,
                                                             sel.max_age_days)]
    /\ UNCHANGED pipeVars

NextProjection == CallProjection

SpecProjection == InitProjection /\ [][NextProjection]_vars

(* The same records without the breakout_classifier ones. *)
RECURSIVE NonBreakout(_)
NonBreakout(data) ==
    IF data = <<>> THEN <<>>
    ELSE IF Head(data).MODEL_TYPE = "breakout_classifier"
         THEN NonBreakout(Tail(data))
         ELSE <<Head(data)>> \o NonBreakout(Tail(data))

(* The lists of at most n records that hold the records of base, in       *)
(* base's order, and besides them breakout_classifier records only.        *)
RECURSIVE Weaves(_, _)
Weaves(base, n) ==
    IF n < Len(base) THEN {}
    ELSE (IF base = <<>> THEN {<<>>}
          ELSE {<<Head(base)>> \o l : l \in Weaves(Tail(base), n - 1)})
         \cup (IF n = 0 THEN {}
               ELSE {<<r>> \o l : r \in BreakoutRecords,
                                  l \in Weaves(base, n - 1)})

(* Two record lists for extract_most_recent_models that differ only in     *)
(* their breakout_classifier records.                                      *)
InitModels ==
    /\ InitIdle
    /\ \E data \in Lists(ModelRecords, MaxLen), none \in BOOLEAN,
          m \in ModelMaxAges :
          /\ none => data = <<>>
          /\ \E other \in Weaves(NonBreakout(data), MaxLen) :
                /\ sel = [call |-> "none",
                          json |-> [none |-> none, data |-> data],
                          alt |-> [none |-> FALSE, data |-> other],
                          max_age_days |-> m, result |-> <<>>,
                          alt_result |-> <<>>]

(* extract_most_recent_models on both lists, at one reading of the clock   *)
(* (line 84).                                                              *)
CallModels ==
    /\ pc = "select"
    /\ sel.call = "none"
    /\ \E n \in now..MaxNow :
          /\ now' = n
          /\ sel' = [sel EXCEPT
                       !.call = "extract_most_recent_models",
                       !.result = extract_most_recent_models(sel.json, n,
                                                             sel.max_age_days),
                       !.alt_result = extract_most_recent_models(sel.alt, n,
                                                             sel.max_age_days)]
    /\ UNCHANGED pipeVars

NextModels == CallModels

SpecModels == InitModels /\ [][NextModels]_vars

----------------------------------------------------------------------------
(* Properties of the pipeline.                                             *)

RosterIds == {players_df[k] : k \in 1..Len(players_df)}
Consolidated == pc \in {"write", "cleanup", "done"}
RowsOf(player_id) == {k \in 1..Len(final_df) : final_df[k].PlayerID = player_id}
BatchIds == {futures[k].player_id : k \in 1..Len(futures)}
FuturesOf(player_id, projection_type) ==
    {k \in 1..Len(futures) : /\ futures[k].player_id = player_id
                             /\ futures[k].projection_type = projection_type}

(* C1: once the intermediate file has been read back, final_df has as many *)
(* rows as the roster has distinct Player IDs, and no Player ID twice.     *)
C1_OneRowPerPlayer ==
    Consolidated =>
        /\ Len(final_df) = Cardinality(RosterIds)
        /\ \A id \in RosterIds : Cardinality(RowsOf(id)) = 1

(* C2: player_projections never holds more than batch_size entries.        *)
C2_AccumulatorWithinThreshold ==
    Cardinality(Keys(player_projections)) <= batch_size

(* C3: at most 5 calls of fetch_projections are running at any moment,     *)
(* while process_batch has submitted two futures per row of the batch; the *)
(* others wait in the queue.                                               *)
C3_AtMostFiveInFlight ==
    /\ Cardinality(Running) <= 5
    /\ pc = "batch" =>
          Len(futures) = 2 * Cardinality(BatchRows(players_df, i, batch_size))
    /\ \A k \in Pending : \A j \in Running \cup Settled : j < k

C3_PoolFull == Cardinality(Running) = 5 /\ Pending # {}

(* C4: process_batch returns only when each of its futures has settled and *)
(* been handled; nothing of an earlier batch is left in player_projections *)
(* when the futures of the next batch are submitted (it has been flushed); *)
(* the intermediate file is not written while a future exists.             *)
C4_BatchesSequential ==
    /\ pc # "batch" => futures = <<>>
    /\ (pc = "loop" /\ i < Len(players_df)) => Keys(player_projections) = {}

(* The fields of an entry that one feed fills, and what the selector of   *)
(* that feed yields as process_batch calls it.                             *)
KindFields(entry, projection_type) ==
    IF projection_type = "score"
    THEN <<entry.ScoreProjection, entry.LowScore, entry.HighScore>>
    ELSE <<entry.Bust, entry.Breakout>>

Selected(projection_type, json, n) ==
    IF projection_type = "score"
    THEN get_most_recent_projection(json, n, ProcessBatchMaxAge)
    ELSE extract_most_recent_models(json, n, ProcessBatchMaxAge)

Absent(projection_type) ==
    IF projection_type = "score" THEN <<None, None, None>> ELSE <<None, None>>

HasRosterMetadata(entry) ==
    \E r \in 1..Len(players_df) :
        /\ players_df[r] = entry.PlayerID
        /\ entry.Name = Row(players_df, r).Name
        /\ entry.Position = Row(players_df, r).Position
        /\ entry.NFLTeam = Row(players_df, r).NFLTeam

FromModelRecord(value, model_type, json, max_age_days) ==
    \E n \in Now0..now : \E r \in 1..Len(json.data) :
        /\ json.data[r].MODEL_TYPE = model_type
        /\ ParseTimestamp(json.data[r].EXECUTION_TIMESTAMP) # <<>>
        /\ days(n - ParseTimestamp(json.data[r].EXECUTION_TIMESTAMP)[1])
              <= max_age_days
        /\ json.data[r].NORMALIZED_RESULT = value

FromProjectionRecord(values, json, max_age_days) ==
    \E n \in Now0..now : \E r \in 1..Len(json.data) :
        /\ ParseTimestamp(json.data[r].EXECUTION_TIMESTAMP) # <<>>
        /\ days(n - ParseTimestamp(json.data[r].EXECUTION_TIMESTAMP)[1])
              <= max_age_days
        /\ values = <<json.data[r].SCORE_PROJECTION, json.data[r].LOW_SCORE,
                      json.data[r].HIGH_SCORE>>

(* C9: a Bust or Breakout value in player_projections comes from a         *)
(* classifier record at most 1 day old when it was selected, a Score       *)
(* Projection / Low Score / High Score from a projection record at most 3  *)
(* days old.                                                               *)
C9_DefaultWindowsPerFeed ==
    (pc = "batch" /\ BatchDone) =>
        \A id \in BatchIds :
            LET entry == player_projections[id] IN
            /\ entry.Bust # None =>
                  \E k \in FuturesOf(id, "classifiers") :
                      FromModelRecord(entry.Bust, "bust_classifier",
                                      futures[k].result, 1)
            /\ entry.Breakout # None =>
                  \E k \in FuturesOf(id, "classifiers") :
                      FromModelRecord(entry.Breakout, "breakout_classifier",
                                      futures[k].result, 1)
            /\ KindFields(entry, "score") # Absent("score") =>
                  \E k \in FuturesOf(id, "score") :
                      FromProjectionRecord(KindFields(entry, "score"),
                                           futures[k].result, 3)

(* The row read back from the intermediate file for an entry.              *)
FinalValue(v) == IF v = None THEN NaN ELSE v

FinalRow(entry) ==
    [Name |-> entry.Name, PlayerID |-> entry.PlayerID,
     Position |-> entry.Position, NFLTeam |-> entry.NFLTeam,
     ScoreProjection |-> FinalValue(entry.ScoreProjection),
     LowScore |-> FinalValue(entry.LowScore),
     HighScore |-> FinalValue(entry.HighScore),
     Bust |-> FinalValue(entry.Bust),
     Breakout |-> FinalValue(entry.Breakout)]

(* C10: in a run whose roster is shorter than batch_size nothing is        *)
(* flushed before the loop ends; when process_batch is about to return an  *)
(* entry's fields are what the selectors select from the player's own two  *)
(* feeds; and final_df has one row per player, holding the entry's         *)
(* metadata and values, with NaN where the entry holds None.               *)
C10_SingleBatchEndToEnd ==
    Len(players_df) < batch_size =>
        /\ pc \in {"loop", "batch", "flush"} => ~intermediate_file.exists
        /\ (pc = "batch" /\ BatchDone) =>
              \A id \in BatchIds : \A ty \in {"score", "classifiers"} :
                  \E k \in FuturesOf(id, ty) : \E n \in Now0..now :
                      KindFields(player_projections[id], ty)
                          = Selected(ty, futures[k].result, n)
        /\ Consolidated =>
              /\ Keys(player_projections) = RosterIds
              /\ Len(final_df) = Cardinality(RosterIds)
              /\ \A id \in RosterIds :
                    \E k \in 1..Len(final_df) :
                        final_df[k] = FinalRow(player_projections[id])

(* The scenario of the two players: A with a fresh score-only projection   *)
(* and a fresh bust record, B with no records at all.                      *)
C10_ScenarioRows ==
    /\ pc = "done"
    /\ players_df = <<EntityA, EntityB>>
    /\ batch_size > Len(players_df)
    /\ final_df =
          <<[Name |-> 1, PlayerID |-> EntityA, Position |-> 1, NFLTeam |-> 1,
             ScoreProjection |-> "12.5", LowScore |-> NaN, HighScore |-> NaN,
             Bust |-> "0.3", Breakout |-> NaN],
            [Name |-> 2, PlayerID |-> EntityB, Position |-> 2, NFLTeam |-> 2,
             ScoreProjection |-> NaN, LowScore |-> NaN, HighScore |-> NaN,
             Bust |-> NaN, Breakout |-> NaN]>>

----------------------------------------------------------------------------
(* Properties of the selectors.                                            *)

(* The age of a record in whole days, fractions of a day dropped. *)
WholeDays(delta) ==
    IF delta >= 0 THEN delta \div DayLen ELSE 0 - ((0 - delta) \div DayLen)

Parses(record) == record.EXECUTION_TIMESTAMP.fmt \in {"usec", "sec"}
InstantOf(record) == record.EXECUTION_TIMESTAMP.t

(* The records of data that parse and are at most m whole days old at n. *)
InWindow(data, n, m) ==
    {k \in 1..Len(data) :
        Parses(data[k]) /\ WholeDays(n - InstantOf(data[k])) <= m}

Latest(data, Q) == {k \in Q : \A j \in Q : InstantOf(data[j]) <= InstantOf(data[k])}

Triple(record) ==
    <<record.SCORE_PROJECTION, record.LOW_SCORE, record.HIGH_SCORE>>

ProjectionCalled == sel.call = "get_most_recent_projection"
ModelsCalled == sel.call = "extract_most_recent_models"

(* C6: what get_most_recent_projection returns are the values of a record  *)
(* that is at most max_age_days whole days old; with no such record (an    *)
(* empty list, or every parsable record older) the three outputs are None. *)
C6_NoExpiredProjection ==
    ProjectionCalled =>
        LET fresh == InWindow(sel.json.data, now, sel.max_age_days) IN
        /\ sel.result # <<None, None, None>> =>
              \E k \in fresh : sel.result = Triple(sel.json.data[k])
        /\ fresh = {} => sel.result = <<None, None, None>>

(* A list that starts with an expired record and holds a fresh one. *)
C6_ExpiredSkipped ==
    /\ ProjectionCalled
    /\ Len(sel.json.data) >= 2
    /\ Parses(sel.json.data[1])
    /\ WholeDays(now - InstantOf(sel.json.data[1])) > sel.max_age_days
    /\ sel.result # <<None, None, None>>
    /\ sel.result # Triple(sel.json.data[1])

(* C7: when some record is within the window, the three outputs are the    *)
(* three fields of one record with the latest timestamp among those        *)
(* within the window, a missing field being None.                          *)
C7_LatestSingleRecord ==
    ProjectionCalled =>
        LET data == sel.json.data
            fresh == InWindow(data, now, sel.max_age_days)
        IN  fresh # {} =>
               \E k \in Latest(data, fresh) : sel.result = Triple(data[k])

(* The latest record comes first and lacks LOW_SCORE, an older one within  *)
(* the window has it.                                                      *)
C7_NewestFirstFieldMissing ==
    /\ ProjectionCalled
    /\ Len(sel.json.data) >= 2
    /\ LET data == sel.json.data
           fresh == InWindow(data, now, sel.max_age_days)
       IN  /\ {1, 2} \subseteq fresh
           /\ InstantOf(data[1]) > InstantOf(data[2])
           /\ data[1].LOW_SCORE = None
           /\ data[2].LOW_SCORE # None
           /\ sel.result = Triple(data[1])

(* The records of one model type, and the value a latest one of them       *)
(* within the window carries.                                              *)
OfType(data, model_type) ==
    {k \in 1..Len(data) : data[k].MODEL_TYPE = model_type}

OwnLatest(value, data, model_type, n, m) ==
    LET own == InWindow(data, n, m) \cap OfType(data, model_type)
    IN  IF own = {} THEN value = None
        ELSE \E k \in Latest(data, own) : value = data[k].NORMALIZED_RESULT

(* C8: the bust value is the same for two lists that differ only in their  *)
(* breakout_classifier records, and each model type's value is the         *)
(* NORMALIZED_RESULT of a latest record of that type within the window.    *)
C8_BustIndependentOfBreakout ==
    ModelsCalled =>
        /\ sel.result[1] = sel.alt_result[1]
        /\ OwnLatest(sel.result[1], sel.json.data, "bust_classifier", now,
                     sel.max_age_days)
        /\ OwnLatest(sel.result[2], sel.json.data, "breakout_classifier", now,
                     sel.max_age_days)
        /\ OwnLatest(sel.alt_result[1], sel.alt.data, "bust_classifier", now,
                     sel.max_age_days)
        /\ OwnLatest(sel.alt_result[2], sel.alt.data, "breakout_classifier",
                     now, sel.max_age_days)

(* The freshest record overall is a breakout one, the two lists have       *)
(* different breakout values, and the bust value is that of the bust       *)
(* record.                                                                 *)
C8_BreakoutFresher ==
    /\ ModelsCalled
    /\ sel.result[1] = "0.3"
    /\ sel.result[2] = "0.7"
    /\ sel.alt_result[2] # sel.result[2]
    /\ \E k \in OfType(sel.json.data, "breakout_classifier") :
          \A j \in OfType(sel.json.data, "bust_classifier") :
              /\ Parses(sel.json.data[j])
              /\ InstantOf(sel.json.data[k]) > InstantOf(sel.json.data[j])

----------------------------------------------------------------------------
(* Properties of the intermediate file.                                    *)

DataRows(file) == {k \in 1..Len(file.lines) : file.lines[k].kind = "row"}
HeaderRows(file) == {k \in 1..Len(file.lines) : file.lines[k].kind = "header"}
FileWritten == intermediate_file' # intermediate_file /\ intermediate_file'.exists

(* C11: a write to the intermediate file appends one line per entry of     *)
(* player_projections to what the file held; the flush of line 175 leaves  *)
(* player_projections empty; and in a run that starts without the file,    *)
(* the file, once it exists, is one header line followed by data rows.     *)
C11_FlushAppendsOneHeader ==
    /\ [](intermediate_file.exists =>
             /\ HeaderRows(intermediate_file) = {1}
             /\ DataRows(intermediate_file) = 2..Len(intermediate_file.lines))
    /\ [][FileWritten =>
             /\ \E head \in {<<>>, <<HeaderLine>>} :
                   /\ (head = <<>>) <=> intermediate_file.exists
                   /\ intermediate_file'.lines =
                         intermediate_file.lines \o head
                             \o CsvLines(player_projections)
             /\ Len(CsvLines(player_projections))
                   = Cardinality(Keys(player_projections))
             /\ \A id \in Keys(player_projections) :
                   \E k \in 1..Len(intermediate_file'.lines) :
                       /\ k > Len(intermediate_file.lines)
                       /\ intermediate_file'.lines[k]
                             = CsvLine(player_projections[id])
             /\ pc = "flush" => player_projections' = EmptyDict
             /\ pc = "loop" => player_projections' = player_projections]_vars

(* The flush of a full batch wrote the header and its rows, and the rest   *)
(* was appended by the lines after the loop.                               *)
C11_FlushedThenDrained ==
    /\ pc = "read"
    /\ Keys(player_projections) # {}
    /\ Len(intermediate_file.lines)
          > 1 + Cardinality(Keys(player_projections))

----------------------------------------------------------------------------
(* Properties of the run as a whole.                                       *)

BeforeWriter == pc \in {"loop", "batch", "flush", "read"}

(* C12: whatever the roster and the outcomes of the fetches, the script    *)
(* does not end before final_df is handed to to_excel: it is never stopped *)
(* by an exception of its own lines 170-197, and as long as the writer has *)
(* not been reached a next step exists.                                    *)
C12_RunReachesWriter ==
    /\ pc # "crashed"
    /\ BeforeWriter => ENABLED Next

----------------------------------------------------------------------------
(* A selector called twice on one record list: the second call reads the   *)
(* clock again (lines 43, 84).                                             *)

Selectors == {"get_most_recent_projection", "extract_most_recent_models"}

Select(fn, json, n, max_age_days) ==
    IF fn = "get_most_recent_projection"
    THEN get_most_recent_projection(json, n, max_age_days)
    ELSE extract_most_recent_models(json, n, max_age_days)

(* What the loop of the selector has kept when it ends: the most recent    *)
(* record and timestamp (lines 64-65), or the most recent value and        *)
(* timestamp of each model type (lines 108-109, 114-115); <<>> when the    *)
(* loop is not entered (lines 38, 77).                                     *)
Kept(fn, json, n, max_age_days) ==
    IF json.none \/ json.data = <<>> THEN <<>>
    ELSE IF fn = "get_most_recent_projection"
         THEN <<ProjectionLoop(json.data, 1, n, max_age_days,
                    [most_recent_timestamp |-> <<>>,
                     most_recent_projection |-> <<>>])>>
         ELSE <<ModelLoop(json.data, 1, n, max_age_days,
                    [most_recent_bust_model |-> None,
                     most_recent_breakout_model |-> None,
                     most_recent_bust_timestamp |-> <<>>,
                     most_recent_breakout_timestamp |-> <<>>])>>

RepeatInputs(fn) ==
    IF fn = "get_most_recent_projection"
    THEN Lists(ProjectionRecords, MaxLen) \X MaxAges
    ELSE Lists(ModelRecords, MaxLen) \X ModelMaxAges

InitRepeat ==
    /\ InitIdle
    /\ \E fn \in Selectors : \E in \in RepeatInputs(fn) :
          sel = [call |-> "none", fn |-> fn,
                 json |-> [none |-> FALSE, data |-> in[1]],
                 max_age_days |-> in[2],
                 first_now |-> 0, result |-> <<>>, kept |-> <<>>,
                 again_now |-> 0, again_result |-> <<>>, again_kept |-> <<>>]

(* The first call of the selector. *)
CallFirst ==
    /\ pc = "select"
    /\ sel.call = "none"
    /\ \E n \in now..MaxNow :
          /\ now' = n
          /\ sel' = [sel EXCEPT
                       !.call = "first",
                       !.first_now = n,
                       !.result = Select(sel.fn, sel.json, n, sel.max_age_days),
                       !.kept = Kept(sel.fn, sel.json, n, sel.max_age_days)]
    /\ UNCHANGED pipeVars

(* The same call once more, at a later reading of the clock. *)
CallAgain ==
    /\ pc = "select"
    /\ sel.call = "first"
    /\ \E n \in now..MaxNow :
          /\ now' = n
          /\ sel' = [sel EXCEPT
                       !.call = "again",
                       !.again_now = n,
                       !.again_result =
                           Select(sel.fn, sel.json, n, sel.max_age_days),
                       !.again_kept =
                           Kept(sel.fn, sel.json, n, sel.max_age_days)]
    /\ UNCHANGED pipeVars

NextRepeat == CallFirst \/ CallAgain

SpecRepeat == InitRepeat /\ [][NextRepeat]_vars

CalledAgain == sel.call = "again"

(* C13 as stated: the second call on the same list with the same           *)
(* max_age_days returns what the first call returned and keeps the same    *)
(* record, and no call changes the list.                                   *)
C13_SelectionIdempotent ==
    /\ [](CalledAgain =>
             sel.again_result = sel.result /\ sel.again_kept = sel.kept)
    /\ [][sel'.json = sel.json]_vars

(* C13 amended: the second call returns what the first returned and keeps  *)
(* the same record whenever the same records are within max_age_days whole *)
(* days at both readings of the clock, as they are at one and the same     *)
(* reading; and no call changes the list.                                  *)
C13_IdempotentWhileWindowStands ==
    /\ [](/\ CalledAgain
          /\ InWindow(sel.json.data, sel.first_now, sel.max_age_days)
                = InWindow(sel.json.data, sel.again_now, sel.max_age_days)
          => sel.again_result = sel.result /\ sel.again_kept = sel.kept)
    /\ [][sel'.json = sel.json]_vars

(* Two calls at different readings of the clock that found a record, the   *)
(* same one.                                                               *)
C13_SameRecordLater ==
    /\ CalledAgain
    /\ sel.again_now > sel.first_now
    /\ InWindow(sel.json.data, sel.first_now, sel.max_age_days)
          = InWindow(sel.json.data, sel.again_now, sel.max_age_days)
    /\ sel.fn = "get_most_recent_projection"
    /\ sel.result # <<None, None, None>>
    /\ sel.again_result = sel.result
    /\ \E k \in 1..Len(sel.json.data) :
          /\ Parses(sel.json.data[k])
          /\ ~(k \in InWindow(sel.json.data, sel.again_now, sel.max_age_days))

----------------------------------------------------------------------------
(* Properties of the threads of process_batch.                             *)

WorkerStep ==
    /\ Len(futures') = Len(futures)
    /\ \E k \in 1..Len(futures) : futures'[k].state # futures[k].state

AccumulatorChanged == player_projections' # player_projections

(* C14: a step of a worker thread (a future starts or finishes its fetch)  *)
(* leaves player_projections as it is; inside process_batch a change of    *)
(* player_projections is the handling of exactly one finished future by    *)
(* the as_completed loop, outside it the clear of line 180.                *)
C14_SingleWriter ==
    [][/\ WorkerStep => ~AccumulatorChanged
       /\ (AccumulatorChanged /\ pc = "batch") =>
             \E k \in Settled \ Applied :
                 futures' = [futures EXCEPT ![k].applied = TRUE]
       /\ AccumulatorChanged => pc \in {"batch", "flush"}]_vars

(* A result has been merged while five fetches are running. *)
C14_MergedWhileFetching ==
    /\ Cardinality(Running) = 5
    /\ Applied # {}
    /\ Keys(player_projections) # {}

----------------------------------------------------------------------------
(* Properties of the order in which futures complete.                      *)

AllFuturesOf(player_id) ==
    {k \in 1..Len(futures) : futures[k].player_id = player_id}
FirstOf(S) == CHOOSE k \in S : \A j \in S : k <= j
LastOf(S) == CHOOSE k \in S : \A j \in S : j <= k

(* C15: in a run of one batch, when process_batch is about to return, the  *)
(* entry of every player is the one that handling the futures in the order *)
(* of their submission gives, whatever the order they completed in: the    *)
(* metadata of the player's row and, for each feed, what the selector      *)
(* selects from the result of the player's future of that feed.            *)
C15_CompletionOrderIrrelevant ==
    (pc = "batch" /\ BatchDone) =>
        \A id \in BatchIds :
            LET entry == player_projections[id]
                row == futures[FirstOf(AllFuturesOf(id))].row
            IN  /\ entry.Name = row.Name
                /\ entry.Position = row.Position
                /\ entry.NFLTeam = row.NFLTeam
                /\ \A ty \in {"score", "classifiers"} :
                      \E n \in Now0..now :
                          KindFields(entry, ty)
                              = Selected(ty, futures[LastOf(FuturesOf(id, ty))].result, n)

----------------------------------------------------------------------------
(* Properties of the batch loop.                                           *)

Min(a, b) == IF a <= b THEN a ELSE b

(* The rows from offset + 1 on, batch_size of them or as many as are left. *)
ConsecutiveRows(offset) ==
    (offset + 1)..Min(offset + batch_size, Len(players_df))

FuturesOfRow(fs, r, projection_type) ==
    {k \in 1..Len(fs) : /\ fs[k].row = Row(players_df, r)
                        /\ fs[k].player_id = players_df[r]
                        /\ fs[k].projection_type = projection_type}

(* C16: the loop's offset is a multiple of batch_size and moves on by      *)
(* batch_size after each batch, so the batches are consecutive slices of   *)
(* the roster and a row is in one of them; process_batch submits for each  *)
(* row of the slice, in roster order, one 'score' and one 'classifiers'    *)
(* future and nothing else; a future is fetched once (it never leaves the  *)
(* finished state nor goes back to the queue) and process_batch returns    *)
(* only when all of them have been fetched.                                *)
C16_PartitionTwoFetchesPerRow ==
    /\ [](i % batch_size = 0)
    /\ [][/\ i' \in {i, i + batch_size}
          /\ (pc = "loop" /\ pc' = "batch") =>
                /\ i < Len(players_df)
                /\ Len(futures') = 2 * Cardinality(ConsecutiveRows(i))
                /\ \A r \in ConsecutiveRows(i) :
                      /\ FuturesOfRow(futures', r, "score") = {2 * (r - i) - 1}
                      /\ FuturesOfRow(futures', r, "classifiers") = {2 * (r - i)}
                /\ \A k \in 1..Len(futures') : futures'[k].state = "PENDING"
          /\ (pc # "loop" /\ pc' = "loop") => i' = i + batch_size
          /\ pc = "loop" => pc' \in {"loop", "batch", "read"}
          /\ (pc = "loop" /\ pc' = "read") => i >= Len(players_df)
          /\ (pc = "batch" /\ pc' = "batch") =>
                /\ Len(futures') = Len(futures)
                /\ \A k \in 1..Len(futures) :
                      /\ futures'[k].row = futures[k].row
                      /\ futures'[k].projection_type = futures[k].projection_type
                      /\ futures[k].state = "FINISHED"
                            => futures'[k].state = "FINISHED"
                      /\ futures[k].state = "RUNNING"
                            => futures'[k].state \in {"RUNNING", "FINISHED"}
          /\ (pc = "batch" /\ pc' # "batch") =>
                \A k \in 1..Len(futures) : futures[k].state = "FINISHED"]_vars

(* The last batch is a short one and all its fetches are over, one of them *)
(* failed.                                                                 *)
C16_ShortLastBatchFetched ==
    /\ pc = "batch"
    /\ i > 0
    /\ Len(futures) < 2 * batch_size
    /\ BatchDone
    /\ \E k \in 1..Len(futures) : futures[k].result.none

----------------------------------------------------------------------------
(* Properties of the cleanup.                                              *)

FileDeleted == intermediate_file.exists /\ ~intermediate_file'.exists

(* C17: the intermediate file is removed only in a state where to_excel    *)
(* has written the output file; when to_excel fails the script ends with   *)
(* the intermediate file still there and no output file.                   *)
C17_DeleteAfterWrite ==
    /\ [][FileDeleted => output_file]_vars
    /\ [](pc = "writer_failed" => intermediate_file.exists /\ ~output_file)
    /\ [](pc = "done" => output_file /\ ~intermediate_file.exists)

(* to_excel failed on a frame with rows. *)
C17_WriterFailed ==
    /\ pc = "writer_failed"
    /\ Len(final_df) > 0
    /\ intermediate_file.exists

----------------------------------------------------------------------------
(* Properties of the handling of one future.                               *)

Handled(k) ==
    /\ pc = "batch" /\ pc' = "batch"
    /\ k \in 1..Len(futures)
    /\ ~futures[k].applied /\ futures'[k].applied

OtherType(projection_type) ==
    IF projection_type = "score" THEN "classifiers" ELSE "score"

Metadata(entry) == <<entry.Name, entry.PlayerID, entry.Position, entry.NFLTeam>>

(* C18: handling a 'score' future leaves Bust and Breakout of the player's *)
(* entry, its metadata and the entries of all other players as they were,  *)
(* handling a 'classifiers' future leaves Score Projection, Low Score and  *)
(* High Score, the metadata and the other entries as they were; an entry   *)
(* made by the step has the metadata of the future's row and None in the   *)
(* fields of the other feed.                                               *)
C18_UpdateTouchesOwnFields ==
    [][\A k \in 1..Len(futures) : Handled(k) =>
          LET id == futures[k].player_id
              other == OtherType(futures[k].projection_type)
          IN  /\ Keys(player_projections') = Keys(player_projections) \cup {id}
              /\ \A j \in Keys(player_projections) \ {id} :
                    player_projections'[j] = player_projections[j]
              /\ id \in Keys(player_projections) =>
                    /\ KindFields(player_projections'[id], other)
                          = KindFields(player_projections[id], other)
                    /\ Metadata(player_projections'[id])
                          = Metadata(player_projections[id])
              /\ id \notin Keys(player_projections) =>
                    /\ KindFields(player_projections'[id], other) = Absent(other)
                    /\ Metadata(player_projections'[id])
                          = <<futures[k].row.Name, id, futures[k].row.Position,
                              futures[k].row.NFLTeam>>]_vars

(* Both futures of a player have been handled and the entry holds the      *)
(* values of both feeds, next to the entry of another player.              *)
C18_BothFeedsKept ==
    /\ pc = "batch"
    /\ BatchDone
    /\ EntityA \in Keys(player_projections)
    /\ player_projections[EntityA].ScoreProjection = "12.5"
    /\ player_projections[EntityA].Bust = "0.3"
    /\ Cardinality(Keys(player_projections)) > 1

----------------------------------------------------------------------------
(* Properties of what has been saved.                                      *)

(* The Player IDs of the rows whose batch process_batch has returned from. *)
ProcessedIds(offset) ==
    {players_df[r] : r \in 1..Min(offset, Len(players_df))}

IdsInFile(file) == {file.lines[k].PlayerID : k \in DataRows(file)}

(* C19: between two batches, after the test of line 175, every Player ID   *)
(* of the rows processed so far is a key of player_projections or has a    *)
(* line in the intermediate file, and after the lines 184-188 every one    *)
(* has a line in the file; the file is written only while no future        *)
(* exists, and every line in it is of a player of a row whose batch        *)
(* process_batch has returned from, both fetches of the row finished.      *)
C19_NothingLostNothingHalfDone ==
    /\ [](pc = "loop" =>
             ProcessedIds(i) \subseteq
                 Keys(player_projections) \cup IdsInFile(intermediate_file))
    /\ [](pc = "read" => RosterIds \subseteq IdsInFile(intermediate_file))
    /\ [](IdsInFile(intermediate_file) \subseteq ProcessedIds(i))
    /\ [][FileWritten => futures = <<>> /\ pc \in {"flush", "loop"}]_vars

(* Between two batches, with some players in the file and others still in  *)
(* player_projections.                                                     *)
C19_PartlyFlushed ==
    /\ pc = "loop"
    /\ i >= batch_size
    /\ intermediate_file.exists
    /\ Keys(player_projections) # {}
    /\ ~(Keys(player_projections) \subseteq IdsInFile(intermediate_file))

----------------------------------------------------------------------------
(* Runs that may find an intermediate file of the same date on disk.  The  *)
(* file name holds the date only (lines 165-166) and the file is opened    *)
(* with mode='a' (lines 178, 187), so a run that ended before line 205     *)
(* leaves a file the next run of the day appends to.                       *)

(* A line an earlier run flushed for the first roster row: a score no feed *)
(* delivers any more.                                                      *)
StaleLine ==
    CsvLine([NewEntry(EntityA, Row(<<EntityA>>, 1))
                EXCEPT !.ScoreProjection = "20"])

LeftoverFile == [exists |-> TRUE, lines |-> <<HeaderLine, StaleLine>>]

InitLeftover ==
    \E df \in Rosters, size \in 1..(SaturatingBatch - 1),
       file \in {NoFile, LeftoverFile} :
        /\ players_df = df
        /\ batch_size = size
        /\ i = 0
        /\ pc = "loop"
        /\ futures = <<>>
        /\ player_projections = EmptyDict
        /\ intermediate_file = file
        /\ final_df = <<>>
        /\ output_file = FALSE
        /\ now = Now0
        /\ sel = NoSel

SpecLeftover == InitLeftover /\ [][Next]_vars

(* C20: whatever intermediate file the run finds when it starts, final_df  *)
(* holds no row that an earlier run wrote to the file.                     *)
C20_OnlyRowsOfThisRun ==
    Consolidated =>
        \A k \in 1..Len(final_df) : final_df[k] # ReadLine(StaleLine)

====
